---- MODULE Spec2Model ----
(***************************************************************************)
(* Signaling core of the video-call application: the browser client        *)
(* (SocketContext, WebRTCContext, VideoCallPage) and the Socket.IO relay   *)
(* (socketHandler).                                                        *)
(*                                                                         *)
(* An async function is modelled as a task that advances from one await    *)
(* to the next; the step that completes an awaited browser or database     *)
(* operation also runs the synchronous code that follows it.               *)
(***************************************************************************)
EXTENDS Integers, Sequences, FiniteSets, Bags, TLC

\* ------------------------------------------------------------------------
\* Bounds
\* ------------------------------------------------------------------------
MaxPC == 3        \* RTCPeerConnection objects one client creates
MaxEnv == 3       \* events the server, the transport and the browser raise at a client

\* ------------------------------------------------------------------------
\* Identifiers
\* ------------------------------------------------------------------------
Users == {"a", "b", "c"}
RoomIds == {"r1", "r2"}
NoRoom == "none"
NoPC == <<"none", 0>>
NoEvent == [type |-> "none", at |-> "none", from |-> "none", stg |-> "none"]

\* ------------------------------------------------------------------------
\* Client state (one entry per browser client, keyed by its user id)
\* ------------------------------------------------------------------------
VARIABLES
  connected,      \* socketRef.current.connected
  currentRoom,    \* SocketContext state.currentRoom (roomId or NoRoom)
  participants,   \* SocketContext state.participants (list of user ids)
  dirty,          \* a render with new currentRoom / participants is not committed yet
  hRoom,          \* currentRoom captured by the registered socket listeners
  peerConnections,\* peerConnectionsRef.current: user id -> index into pcs, 0 = none
  pcs,            \* every RTCPeerConnection the client created, in creation order
  tasks,          \* bag of running async handlers (handleOffer, handleAnswer, handleNegotiationNeeded)
  remoteStreams,  \* WebRTC state.remoteStreams: user ids with a remote stream
  wire,           \* signaling events relayed to each user's socket, not yet handled
  lastEv,         \* history: the event the listeners handled, or the catch block that ran, in the last step
  nEnv            \* environment events used

cvars == <<connected, currentRoom, participants, dirty, hRoom, peerConnections,
           pcs, tasks, remoteStreams, wire, lastEv, nEnv>>

\* ------------------------------------------------------------------------
\* Server state (socketHandler.js and the Socket.IO server it runs on)
\* ------------------------------------------------------------------------
VARIABLES
  sock,           \* each socket: "new" (not yet connected), "online", "closed"
  connectedUsers, \* the Map socket.id -> { user, currentRoomId }, or Absent
  rooms,          \* Socket.IO adapter: the rooms each socket has joined
  handlers,       \* running async handlers (join_room, disconnect) at their await
  req,            \* history: the client event or resumed handler served by the last step
  out,            \* history: the events the last step delivered, one per receiving socket
  nReq            \* client events handled

svars == <<sock, connectedUsers, rooms, handlers, req, out, nReq>>

\* ------------------------------------------------------------------------
\* Page state (VideoCallPage under the SocketProvider its route mounts)
\* ------------------------------------------------------------------------
VARIABLES
  page,           \* "closed", or "open" while /room/:roomId is mounted
  routeRoomId,    \* useParams().roomId
  roomReady,      \* useState roomReady
  timers,         \* pending setTimeout callbacks of initializeRoom
  socketStatus,   \* "none", "connecting" or "connected": the provider's socket
  stateConnected, \* SocketContext state.connected as last rendered
  pageRoom,       \* SocketContext state.currentRoom as last rendered
  closure,        \* currentRoom and connected captured by the last run of the effect
  pending,        \* join_room requests the server has not answered
  joinSent,       \* room ids join_room was emitted for since the page opened
  leaveSent,      \* room ids leave_room was emitted for since the page opened
  nNav            \* navigations so far

pvars == <<page, routeRoomId, roomReady, timers, socketStatus, stateConnected, pageRoom,
           closure, pending, joinSent, leaveSent, nNav>>

\* ------------------------------------------------------------------------
\* Provider state (one SocketProvider instance, and the AuthContext and
\* localStorage values its effect reads)
\* ------------------------------------------------------------------------
VARIABLES
  authUser,       \* useAuth().user: NoAuth or the identity of the user object
  authToken,      \* useAuth().token: NoAuth or the token
  demoMode,       \* localStorage has the item 'demoMode'
  provMounted,    \* the SocketProvider is mounted
  socketRef,      \* socketRef.current: index into ioSockets, 0 = null
  ioSockets,      \* every socket io(...) returned, in creation order
  cleanupOf,      \* the newSocket the effect's pending cleanup captured, 0 = no cleanup
  provConnected,  \* state.connected
  provRoom,       \* state.currentRoom
  sent,           \* history: the packets written to the transport, in order
  lastCall,       \* history: the last call of an emit function
  lastEffect,     \* history: the branch the last run of the effect took
  nCall,          \* calls of emit functions so far
  nAuth           \* mounts and changes of user, token and demo mode so far

xvars == <<authUser, authToken, demoMode, provMounted, socketRef, ioSockets, cleanupOf,
           provConnected, provRoom, sent, lastCall, lastEffect, nCall, nAuth>>

\* ------------------------------------------------------------------------
\* REST state (routes/rooms.js and the rooms collection)
\* ------------------------------------------------------------------------
VARIABLES
  dbRoom,         \* the stored Room document: active participant entries per user, status
  restJobs,       \* running POST /join/:roomId handlers at their await
  restRes,        \* history: the response the last step sent
  nJoin           \* join requests received

rvars == <<dbRoom, restJobs, restRes, nJoin>>

vars == <<cvars, svars, pvars, xvars, rvars>>
notClient == <<svars, pvars, xvars, rvars>>
notServer == <<cvars, pvars, xvars, rvars>>
notPage == <<cvars, svars, xvars, rvars>>
notProvider == <<cvars, svars, pvars, rvars>>
notRest == <<cvars, svars, pvars, xvars>>

NoRes == [user |-> "none", code |-> 0, error |-> "none", found |-> 0]

\* POST /create by user "a" has stored the room: the host is its first
\* participant, status has its default
RestIdle ==
  /\ dbRoom = [participants |-> [u \in Users |-> IF u = "a" THEN 1 ELSE 0],
               status |-> "waiting"]
  /\ restJobs = {}
  /\ restRes = NoRes
  /\ nJoin = 0

NoAuth == "none"
NoCall == [fn |-> "none", connected |-> FALSE]
NoEffect == [branch |-> "none", connected |-> FALSE]

\* no SocketProvider is mounted and nobody is logged in
ProviderIdle ==
  /\ authUser = NoAuth
  /\ authToken = NoAuth
  /\ demoMode = FALSE
  /\ provMounted = FALSE
  /\ socketRef = 0
  /\ ioSockets = <<>>
  /\ cleanupOf = 0
  /\ provConnected = FALSE
  /\ provRoom = NoRoom
  /\ sent = <<>>
  /\ lastCall = NoCall
  /\ lastEffect = NoEffect
  /\ nCall = 0
  /\ nAuth = 0

Clients == {"a", "b"}

\* ------------------------------------------------------------------------
\* Server identifiers
\* ------------------------------------------------------------------------
Sockets == {"s1", "s2", "s3"}
\* socket.user, set by socketAuthMiddleware: user "b" is connected twice
UserOf(s) == IF s = "s1" THEN "a" ELSE "b"
DbRooms == RoomIds                 \* the rooms Room.findOne finds
Absent == [currentRoomId |-> "absent"]
NoReq == [sock |-> "none", type |-> "none", target |-> "none", payload |-> "none",
          body |-> "none", roomId |-> "none"]

\* the server part of a state in which only clients run
PageClosed ==
  /\ page = "closed"
  /\ routeRoomId = NoRoom
  /\ roomReady = FALSE
  /\ timers = 0
  /\ socketStatus = "none"
  /\ stateConnected = FALSE
  /\ pageRoom = NoRoom
  /\ closure = [currentRoom |-> NoRoom, connected |-> FALSE]
  /\ pending = {}
  /\ joinSent = {}
  /\ leaveSent = {}
  /\ nNav = 0

ServerIdle ==
  /\ sock = [s \in Sockets |-> "new"]
  /\ connectedUsers = [s \in Sockets |-> Absent]
  /\ rooms = [s \in Sockets |-> {}]
  /\ handlers = {}
  /\ req = NoReq
  /\ out = {}
  /\ nReq = 0

\* ------------------------------------------------------------------------
\* WebRTCContext.jsx: helpers on one client's (pcs, table, tasks) triple
\* ------------------------------------------------------------------------
\* the bag of running handlers: one more, one fewer, one moved to its next await
Start(B, t) == B (+) SetToBag({t})
Finish(B, t) == B (-) SetToBag({t})
Advance(B, t, stage) == Finish(B, t) (+) SetToBag({[t EXCEPT !.stg = stage]})

\* new RTCPeerConnection(...) with the local tracks added: neg says that the
\* browser has a negotiationneeded event to fire for it
RTCPeerConnection(u, rm) ==
  [peer |-> u, st |-> "stable", rem |-> NoPC, sent |-> 0, ans |-> 0, room |-> rm,
   neg |-> TRUE]

\* createPeerConnection(userId): reuse the table entry or create a new object.
\* rm is the currentRoom of the render whose closure makes the call.
createPeerConnection(S, u, rm) ==
  IF S.table[u] # 0 THEN S
  ELSE [S EXCEPT !.pcs = Append(@, RTCPeerConnection(u, rm)),
                 !.table[u] = Len(S.pcs) + 1]

\* The synchronous part of handleNegotiationNeeded: the signalingState check
\* and the call of createOffer, which is then awaited.
handleNegotiationNeeded(S, idx, u, rm) ==
  IF S.pcs[idx].st = "stable"
  THEN [S EXCEPT !.tasks = Start(@, [k |-> "neg", pc |-> idx, u |-> u,
                                     stg |-> "createOffer", room |-> rm, m |-> NoPC])]
  ELSE S

\* peerConnectionsRef.current[u].close(); delete peerConnectionsRef.current[u]
\* A closed connection is never used again; the model keeps only its state.
Closed(pc) == [RTCPeerConnection(pc.peer, NoRoom) EXCEPT !.st = "closed", !.neg = FALSE]

closeAndDelete(S, u) ==
  IF S.table[u] # 0
  THEN [S EXCEPT !.pcs[S.table[u]] = Closed(@), !.table[u] = 0]
  ELSE S

PeerIds(tbl) == {u \in Users : tbl[u] # 0}

SeqToSet(q) == {q[i] : i \in 1..Len(q)}

\* participants.map(p => p._id).filter(id => id !== user._id)
ParticipantIds(ps, me) == SelectSeq(ps, LAMBDA id : id # me)

\* "Connect to new participants": the first loop of the participants effect.
\* cur is the snapshot Object.keys(peerConnectionsRef.current) taken before it.
RECURSIVE ConnectNew(_, _, _, _)
ConnectNew(S, ids, cur, rm) ==
  IF ids = <<>> THEN S
  ELSE LET pId == Head(ids) IN
       IF pId \in cur THEN ConnectNew(S, Tail(ids), cur, rm)
       ELSE LET S1 == createPeerConnection(S, pId, rm)
                S2 == handleNegotiationNeeded(S1, S1.table[pId], pId, rm)
            IN ConnectNew(S2, Tail(ids), cur, rm)

\* closePeerConnection without dispatch REMOVE_REMOTE_STREAM
RECURSIVE DisconnectLeftKeepStream(_, _, _)
DisconnectLeftKeepStream(S, gone, strm) ==
  IF gone = {} THEN [S |-> S, strm |-> strm]
  ELSE LET u == CHOOSE x \in gone : TRUE IN
       DisconnectLeftKeepStream(closeAndDelete(S, u), gone \ {u}, strm)

\* "Disconnect from left participants": the second loop, closePeerConnection.
RECURSIVE DisconnectLeft(_, _, _)
DisconnectLeft(S, gone, strm) ==
  IF gone = {} THEN [S |-> S, strm |-> strm]
  ELSE LET u == CHOOSE x \in gone : TRUE IN
       IF S.table[u] # 0
       THEN DisconnectLeft(closeAndDelete(S, u), gone \ {u}, strm \ {u})
       ELSE DisconnectLeft(S, gone \ {u}, strm)

State(c) == [pcs |-> pcs[c], table |-> peerConnections[c], tasks |-> tasks[c]]

SetState(c, S) ==
  /\ pcs' = [pcs EXCEPT ![c] = S.pcs]
  /\ peerConnections' = [peerConnections EXCEPT ![c] = S.table]
  /\ tasks' = [tasks EXCEPT ![c] = S.tasks]


\* ------------------------------------------------------------------------
\* SocketContext.jsx: reducer cases driven by server events
\* ------------------------------------------------------------------------
\* newSocket.on('room_joined'): SET_ROOM, SET_PARTICIPANTS
room_joined(c, r, ps) ==
  /\ currentRoom' = [currentRoom EXCEPT ![c] = r]
  /\ participants' = [participants EXCEPT ![c] = ps]
  /\ dirty' = [dirty EXCEPT ![c] = TRUE]

\* newSocket.on('user_joined'): ADD_PARTICIPANT returns the same state when
\* the user is already listed, and React then skips the render.
user_joined(c, u) ==
  /\ participants' = [participants EXCEPT ![c] =
                        IF u \in SeqToSet(@) THEN @ ELSE Append(@, u)]
  /\ dirty' = [dirty EXCEPT ![c] = @ \/ u \notin SeqToSet(participants[c])]
  /\ UNCHANGED currentRoom

\* newSocket.on('user_left'): REMOVE_PARTICIPANT, filter always builds a new array
user_left(c, u) ==
  /\ participants' = [participants EXCEPT ![c] = SelectSeq(@, LAMBDA p : p # u)]
  /\ dirty' = [dirty EXCEPT ![c] = TRUE]
  /\ UNCHANGED currentRoom

\* an event on the wire.  The session description in webrtc_offer and
\* webrtc_answer is identified by the connection that created it.
Event(type, from, room, ps, pc) ==
  [type |-> type, from |-> from, room |-> room, participants |-> ps, pc |-> pc]
Signal(type, c, idx) == Event(type, c, NoRoom, <<>>, <<c, idx>>)

\* sendOffer / sendAnswer: emit only when the socket is connected.  The relay
\* hands the event to the sockets of the target user (DOMAIN wire: the users
\* that have a socket).
Emit(c, target, msg) ==
  IF connected[c] /\ target \in DOMAIN wire
  THEN [wire EXCEPT ![target] = Append(@, msg)] ELSE wire

\* ------------------------------------------------------------------------
\* WebRTCContext.jsx: effects and handlers
\* ------------------------------------------------------------------------
\* React commits a render: the listener effect re-registers the handlers with
\* the new currentRoom and the participants effect runs.
ParticipantsEffect(c) ==
  LET S == State(c)
      cur == PeerIds(S.table)
      ids == ParticipantIds(participants[c], c)
      S1 == ConnectNew(S, ids, cur, currentRoom[c])
      R == DisconnectLeft(S1, cur \ SeqToSet(ids), remoteStreams[c])
  IN IF currentRoom[c] # NoRoom
     THEN /\ SetState(c, R.S)
          /\ remoteStreams' = [remoteStreams EXCEPT ![c] = R.strm]
     ELSE UNCHANGED <<pcs, peerConnections, tasks, remoteStreams>>

Commit(c) ==
  /\ dirty[c]
  /\ Len(pcs[c]) + Cardinality(SeqToSet(participants[c]) \ {c}) <= MaxPC
  /\ dirty' = [dirty EXCEPT ![c] = FALSE]
  /\ hRoom' = [hRoom EXCEPT ![c] = currentRoom[c]]
  /\ ParticipantsEffect(c)
  /\ lastEv' = NoEvent
  /\ UNCHANGED <<connected, currentRoom, participants, wire, nEnv>>
  /\ UNCHANGED notClient

\* handleOffer that keeps the existing connection
handleOfferReuse(c, m) ==
  LET S1 == createPeerConnection(State(c), m.from, hRoom[c])
      idx == S1.table[m.from]
  IN /\ Len(pcs[c]) < MaxPC
     /\ IF S1.pcs[idx].st \in {"stable", "have-local-offer"}
        THEN SetState(c, [S1 EXCEPT !.tasks = Start(@,
                 [k |-> "offer", pc |-> idx, u |-> m.from, stg |-> "srd",
                  room |-> hRoom[c], m |-> m.pc])])
        ELSE SetState(c, S1)

\* handleOffer up to its first await (setRemoteDescription)
handleOffer(c, m) ==
  LET S0 == closeAndDelete(State(c), m.from)
      S1 == createPeerConnection(S0, m.from, hRoom[c])
      idx == S1.table[m.from]
  IN /\ Len(pcs[c]) < MaxPC
     /\ IF S1.pcs[idx].st \in {"stable", "have-local-offer"}
        THEN SetState(c, [S1 EXCEPT !.tasks = Start(@,
                 [k |-> "offer", pc |-> idx, u |-> m.from, stg |-> "srd",
                  room |-> hRoom[c], m |-> m.pc])])
        ELSE SetState(c, S1)

\* handleAnswer without the signalingState check
handleAnswerAnyState(c, m) ==
  LET idx == peerConnections[c][m.from] IN
  IF idx # 0
  THEN /\ tasks' = [tasks EXCEPT ![c] = Start(@,
                 [k |-> "answer", pc |-> idx, u |-> m.from, stg |-> "srd",
                  room |-> hRoom[c], m |-> m.pc])]
       /\ UNCHANGED <<pcs, peerConnections>>
  ELSE UNCHANGED <<pcs, peerConnections, tasks>>

\* handleAnswer up to its await (setRemoteDescription)
handleAnswer(c, m) ==
  LET idx == peerConnections[c][m.from] IN
  IF idx # 0 /\ pcs[c][idx].st = "have-local-offer"
  THEN /\ tasks' = [tasks EXCEPT ![c] = Start(@,
                 [k |-> "answer", pc |-> idx, u |-> m.from, stg |-> "srd",
                  room |-> hRoom[c], m |-> m.pc])]
       /\ UNCHANGED <<pcs, peerConnections>>
  ELSE UNCHANGED <<pcs, peerConnections, tasks>>

\* a catch block that only logs
CatchLogOnly(c, t) ==
  SetState(c, [State(c) EXCEPT !.tasks = Finish(@, t)])

\* catch blocks of handleOffer and handleAnswer
CatchClose(c, t) ==
  LET S1 == closeAndDelete(State(c), t.u)
  IN SetState(c, [S1 EXCEPT !.tasks = Finish(@, t)])

\* ------------------------------------------------------------------------
\* RTCPeerConnection: the signaling states in which each awaited call succeeds
\* ------------------------------------------------------------------------
CanCreateOffer(pc) == pc.st # "closed"
CanSetLocalOffer(pc) == pc.st \in {"stable", "have-local-offer"}
CanSetRemoteOffer(pc) == pc.st \in {"stable", "have-local-offer", "have-remote-offer"}
CanCreateAnswer(pc) == pc.st = "have-remote-offer"
CanSetLocalAnswer(pc) == pc.st = "have-remote-offer"
CanSetRemoteAnswer(pc) == pc.st = "have-local-offer"

\* whether the call that task i of client c awaits succeeds
TaskOk(c, t, fail) ==
  LET pc == pcs[c][t.pc]
  IN /\ ~fail
     /\ CASE t.k = "neg" /\ t.stg = "createOffer" -> CanCreateOffer(pc)
          [] t.k = "neg" /\ t.stg = "sld" -> CanSetLocalOffer(pc)
          [] t.k = "offer" /\ t.stg = "srd" -> CanSetRemoteOffer(pc)
          [] t.k = "offer" /\ t.stg = "createAnswer" -> CanCreateAnswer(pc)
          [] t.k = "offer" /\ t.stg = "sld" -> CanSetLocalAnswer(pc)
          [] OTHER -> CanSetRemoteAnswer(pc)

\* handleNegotiationNeeded after an await.  A rejected promise is caught and
\* only logged.
NegStep(c, t, fail) ==
  LET pc == pcs[c][t.pc]
  IN /\ t.k = "neg"
     /\ IF t.stg = "createOffer"
        THEN /\ tasks' = [tasks EXCEPT ![c] =
                   IF TaskOk(c, t, fail)
                   THEN Advance(@, t, "sld") ELSE Finish(@, t)]
             /\ UNCHANGED <<pcs, wire>>
        ELSE /\ tasks' = [tasks EXCEPT ![c] = Finish(@, t)]
             /\ IF TaskOk(c, t, fail)
                THEN LET emits == t.room # NoRoom /\ connected[c] IN
                     /\ pcs' = [pcs EXCEPT ![c][t.pc].st = "have-local-offer",
                                           ![c][t.pc].neg = FALSE,
                                           ![c][t.pc].sent =
                                              IF emits THEN @ + 1 ELSE @]
                     /\ wire' = IF t.room # NoRoom
                                THEN Emit(c, t.u, Signal("webrtc_offer", c, t.pc))
                                ELSE wire
                ELSE UNCHANGED <<pcs, wire>>
     /\ UNCHANGED <<peerConnections, remoteStreams>>

\* handleOffer after an await
OfferStep(c, t, fail) ==
  LET pc == pcs[c][t.pc]
      ok == TaskOk(c, t, fail)
  IN /\ t.k = "offer"
     /\ IF ~ok THEN CatchClose(c, t) /\ UNCHANGED wire
        ELSE CASE t.stg = "srd" ->
                    /\ pcs' = [pcs EXCEPT ![c][t.pc].st = "have-remote-offer",
                                          ![c][t.pc].neg = FALSE,
                                          ![c][t.pc].rem = t.m]
                    /\ tasks' = [tasks EXCEPT ![c] = Advance(@, t, "createAnswer")]
                    /\ UNCHANGED <<peerConnections, wire>>
               [] t.stg = "createAnswer" ->
                    /\ tasks' = [tasks EXCEPT ![c] = Advance(@, t, "sld")]
                    /\ UNCHANGED <<pcs, peerConnections, wire>>
               [] OTHER ->
                    LET emits == t.room # NoRoom /\ connected[c] IN
                    /\ pcs' = [pcs EXCEPT ![c][t.pc].st = "stable",
                                          ![c][t.pc].ans = IF emits THEN @ + 1 ELSE @]
                    /\ tasks' = [tasks EXCEPT ![c] = Finish(@, t)]
                    /\ wire' = IF t.room # NoRoom
                               THEN Emit(c, t.u, Signal("webrtc_answer", c, t.pc))
                               ELSE wire
                    /\ UNCHANGED peerConnections
     /\ UNCHANGED remoteStreams

\* handleAnswer after its await
AnswerStep(c, t, fail) ==
  LET pc == pcs[c][t.pc]
  IN /\ t.k = "answer"
     /\ IF TaskOk(c, t, fail)
        THEN /\ pcs' = [pcs EXCEPT ![c][t.pc].st = "stable",
                                   ![c][t.pc].rem = t.m,
                                   ![c][t.pc].sent = 0]
             /\ tasks' = [tasks EXCEPT ![c] = Finish(@, t)]
             /\ UNCHANGED peerConnections
        ELSE CatchClose(c, t)
     /\ UNCHANGED <<wire, remoteStreams>>

\* One running handler of client c resumes; fail says whether the awaited
\* browser call rejects for a reason of its own.
Resume(c, t, fail) ==
  /\ BagIn(t, tasks[c])
  /\ \/ NegStep(c, t, fail)
     \/ OfferStep(c, t, fail)
     \/ AnswerStep(c, t, fail)
  /\ lastEv' = IF ~TaskOk(c, t, fail) /\ t.k # "neg"
               THEN [type |-> "caught_" \o t.k, at |-> c, from |-> t.u, stg |-> t.stg]
               ELSE NoEvent
  /\ UNCHANGED <<connected, currentRoom, participants, dirty, hRoom>>
  /\ UNCHANGED notClient

\* peerConnection.onnegotiationneeded: the browser fires it once for the
\* tracks added at creation, in state stable, unless a description set in
\* the meantime has covered them
onnegotiationneeded(c, idx) ==
  LET S == State(c)
      S1 == [S EXCEPT !.pcs[idx].neg = FALSE]
  IN /\ idx \in 1..Len(pcs[c])
     /\ pcs[c][idx].neg
     /\ pcs[c][idx].st = "stable"
     /\ nEnv < MaxEnv
     /\ nEnv' = nEnv + 1
     /\ SetState(c, handleNegotiationNeeded(S1, idx, pcs[c][idx].peer,
                                            pcs[c][idx].room))
     /\ lastEv' = NoEvent
     /\ UNCHANGED <<connected, currentRoom, participants, dirty, hRoom,
                    remoteStreams, wire>>
  /\ UNCHANGED notClient

\* peerConnection.ontrack: ADD_REMOTE_STREAM
ontrack(c, u) ==
  /\ peerConnections[c][u] # 0
  /\ pcs[c][peerConnections[c][u]].rem # NoPC
  /\ u \notin remoteStreams[c]
  /\ remoteStreams' = [remoteStreams EXCEPT ![c] = @ \cup {u}]
  /\ lastEv' = NoEvent
  /\ UNCHANGED <<connected, currentRoom, participants, dirty, hRoom,
                 peerConnections, pcs, tasks, wire, nEnv>>
  /\ UNCHANGED notClient

\* ------------------------------------------------------------------------
\* A socket event reaches the listeners of client c
\* ------------------------------------------------------------------------
Receive(c, m) ==
  CASE m.type = "room_joined" ->
         /\ room_joined(c, m.room, m.participants)
         /\ UNCHANGED <<pcs, peerConnections, tasks>>
    [] m.type = "user_joined" ->
         /\ user_joined(c, m.from)
         /\ UNCHANGED <<pcs, peerConnections, tasks>>
    [] m.type = "user_left" ->
         /\ user_left(c, m.from)
         /\ UNCHANGED <<pcs, peerConnections, tasks>>
    [] m.type = "webrtc_offer" ->
         /\ handleOffer(c, m)
         /\ UNCHANGED <<currentRoom, participants, dirty>>
    [] OTHER ->
         /\ handleAnswer(c, m)
         /\ UNCHANGED <<currentRoom, participants, dirty>>

\* leaveRoom(roomId): leave_room is emitted and CLEAR_ROOM_STATE dispatched
\* only when the socket is connected
leaveRoom(c) ==
  /\ currentRoom[c] # NoRoom
  /\ connected[c]
  /\ currentRoom' = [currentRoom EXCEPT ![c] = NoRoom]
  /\ participants' = [participants EXCEPT ![c] = <<>>]
  /\ dirty' = [dirty EXCEPT ![c] = TRUE]

\* ------------------------------------------------------------------------
\* System 1: one client, the rest of the world is the environment.  The relay
\* forwards a signaling event from any authenticated user to any user, so the
\* client can receive any event at any time while it is connected.
\* ------------------------------------------------------------------------
Me == "a"
JoinLists == {<<"a", "b">>, <<"b", "a", "c">>, <<"a", "b", "b">>}
Signalers == {"b"}

EnvEvents ==
  {Event("room_joined", Me, "r1", ps, NoPC) : ps \in JoinLists}
  \cup {Event(t, u, NoRoom, <<>>, NoPC)
          : t \in {"user_joined", "user_left"}, u \in Users \ {Me}}
  \cup {Signal(t, u, 1) : t \in {"webrtc_offer", "webrtc_answer"}, u \in Signalers}

EnvReceive(m) ==
  /\ nEnv < MaxEnv
  /\ connected[Me]
  /\ m.type \in {"user_joined", "user_left"} => currentRoom[Me] # NoRoom
  /\ nEnv' = nEnv + 1
  /\ Receive(Me, m)
  /\ lastEv' = [type |-> m.type, at |-> Me, from |-> m.from, stg |-> "none"]
  /\ UNCHANGED <<connected, hRoom, remoteStreams, wire>>
  /\ UNCHANGED notClient

EnvLeaveRoom ==
  /\ nEnv < MaxEnv
  /\ nEnv' = nEnv + 1
  /\ leaveRoom(Me)
  /\ lastEv' = NoEvent
  /\ UNCHANGED <<connected, hRoom, peerConnections, pcs, tasks, remoteStreams,
                 wire>>
  /\ UNCHANGED notClient

\* the transport drops (newSocket.on('disconnect')) or comes back ('connect')
EnvConnection ==
  /\ nEnv < MaxEnv
  /\ nEnv' = nEnv + 1
  /\ connected' = [connected EXCEPT ![Me] = ~@]
  /\ lastEv' = NoEvent
  /\ UNCHANGED <<currentRoom, participants, dirty, hRoom, peerConnections, pcs,
                 tasks, remoteStreams, wire>>
  /\ UNCHANGED notClient

\* an awaited browser call rejects
EnvReject(t) ==
  /\ nEnv < MaxEnv
  /\ nEnv' = nEnv + 1
  /\ Resume(Me, t, TRUE)

ResumeOk(c, t) == Resume(c, t, FALSE) /\ UNCHANGED nEnv

CommitStep(c) == Commit(c)

InitClients ==
  /\ connected = [c \in Clients |-> TRUE]
  /\ currentRoom = [c \in Clients |-> NoRoom]
  /\ participants = [c \in Clients |-> <<>>]
  /\ dirty = [c \in Clients |-> FALSE]
  /\ hRoom = [c \in Clients |-> NoRoom]
  /\ peerConnections = [c \in Clients |-> [u \in Users |-> 0]]
  /\ pcs = [c \in Clients |-> <<>>]
  /\ tasks = [c \in Clients |-> EmptyBag]
  /\ remoteStreams = [c \in Clients |-> {}]
  /\ lastEv = NoEvent
  /\ nEnv = 0

Init == InitClients /\ wire = <<>> /\ ServerIdle /\ PageClosed /\ ProviderIdle /\ RestIdle

Next ==
  \/ \E m \in EnvEvents : EnvReceive(m)
  \/ EnvLeaveRoom
  \/ EnvConnection
  \/ \E t \in BagToSet(tasks[Me]) : EnvReject(t)
  \/ \E t \in BagToSet(tasks[Me]) : ResumeOk(Me, t)
  \/ CommitStep(Me)
  \/ \E i \in 1..MaxPC : onnegotiationneeded(Me, i)
  \/ \E u \in Users : ontrack(Me, u)

Spec == Init /\ [][Next]_vars

\* ------------------------------------------------------------------------
\* Properties of the client
\* ------------------------------------------------------------------------
Others(c) == SeqToSet(participants[c]) \ {c}
PcIdx(c) == 1..Len(pcs[c])

C5_OneOfferOutstanding ==
  \A c \in Clients : \A i \in PcIdx(c) : pcs[c][i].sent <= 1

\* the first half of C6 and what the listeners do with an incoming offer:
\* the connection held for the sender is closed and a new one, in state
\* stable, takes its place and is given the offer
FreshForOffer ==
  lastEv'.type = "webrtc_offer" =>
     LET c == lastEv'.at
         u == lastEv'.from
         new == peerConnections'[c][u]
     IN /\ peerConnections[c][u] # 0 => pcs'[c][peerConnections[c][u]].st = "closed"
        /\ new = Len(pcs[c]) + 1
        /\ pcs'[c][new].st = "stable" /\ pcs'[c][new].rem = NoPC
        /\ \E t \in BagToSet(tasks'[c]) : t.k = "offer" /\ t.pc = new /\ t.stg = "srd"

\* handleOffer completes its last await (setLocalDescription of the answer)
AnswerReady(c, t) ==
  /\ t.k = "offer" /\ t.stg = "sld" /\ tasks'[c] = Finish(tasks[c], t)
  /\ pcs[c][t.pc].st = "have-remote-offer" /\ pcs'[c][t.pc].st = "stable"

C7_AnswerOnlyInHaveLocalOffer ==
  [][/\ lastEv'.type = "webrtc_answer" =>
          LET c == lastEv'.at
              idx == peerConnections[c][lastEv'.from]
          IN /\ pcs' = pcs /\ peerConnections' = peerConnections
             /\ IF idx # 0 /\ pcs[c][idx].st = "have-local-offer"
                THEN \E t \in BagToSet(tasks'[c]) :
                        /\ t.k = "answer" /\ t.pc = idx /\ t.stg = "srd"
                        /\ tasks'[c] = Start(tasks[c], t)
                ELSE tasks' = tasks
     /\ \A c \in Clients : \A t \in BagToSet(tasks[c]) :
          (/\ t.k = "answer" /\ tasks'[c] = Finish(tasks[c], t)
           /\ pcs[c][t.pc].st # "stable" /\ pcs'[c][t.pc].st = "stable")
             => /\ pcs[c][t.pc].st = "have-local-offer"
                /\ peerConnections[c][t.u] = t.pc]_vars

C7_Witness ==
  /\ lastEv.type = "webrtc_answer"
  /\ peerConnections[Me][lastEv.from] # 0
  /\ pcs[Me][peerConnections[Me][lastEv.from]].st = "stable"
  /\ BagToSet(tasks[Me]) = {}

\* C8: when setRemoteDescription of an offer or an answer from U rejects,
\* the table entry of U is removed and its connection closed, and the entries
\* and connections of all other users stay as they were
C8_FailureClosesOnlyThatPeer ==
  [][(lastEv'.type \in {"caught_offer", "caught_answer"} /\ lastEv'.stg = "srd") =>
       LET c == lastEv'.at
           u == lastEv'.from
       IN /\ peerConnections'[c][u] = 0
          /\ peerConnections[c][u] # 0 => pcs'[c][peerConnections[c][u]].st = "closed"
          /\ \A v \in Users \ {u} :
               /\ peerConnections'[c][v] = peerConnections[c][v]
               /\ peerConnections[c][v] # 0 =>
                    pcs'[c][peerConnections[c][v]] = pcs[c][peerConnections[c][v]]]_vars

C8_Witness ==
  /\ lastEv.type \in {"caught_offer", "caught_answer"} /\ lastEv.stg = "srd"
  /\ \E v \in Users \ {lastEv.from} :
        /\ peerConnections[Me][v] # 0
        /\ pcs[Me][peerConnections[Me][v]].st # "closed"
  /\ \E i \in PcIdx(Me) : pcs[Me][i].st = "closed" /\ pcs[Me][i].peer = lastEv.from

\* C9: after the catch block of handleOffer removed the connection for U, a
\* client that is in a room with U still listed and has nothing left to run
\* holds a connection for U again
C9_RecreatedAfterOfferError ==
  \A c \in Clients :
     (/\ lastEv.type = "caught_offer" /\ lastEv.at = c
      /\ tasks[c] = EmptyBag /\ ~dirty[c]
      /\ currentRoom[c] # NoRoom /\ lastEv.from \in Others(c))
     => peerConnections[c][lastEv.from] # 0

\* ------------------------------------------------------------------------
\* System 2: two clients of the application and the relay between them.
\* "a" is in room r1; the server has just handled join_room of "b", so
\* room_joined is on its way to "b" and user_joined to "a".  No call fails
\* and every event is delivered.
\* ------------------------------------------------------------------------
InitMesh ==
  /\ connected = [c \in Clients |-> TRUE]
  /\ currentRoom = [c \in Clients |-> IF c = "a" THEN "r1" ELSE NoRoom]
  /\ participants = [c \in Clients |-> IF c = "a" THEN <<"a">> ELSE <<>>]
  /\ dirty = [c \in Clients |-> FALSE]
  /\ hRoom = currentRoom
  /\ peerConnections = [c \in Clients |-> [u \in Users |-> 0]]
  /\ pcs = [c \in Clients |-> <<>>]
  /\ tasks = [c \in Clients |-> EmptyBag]
  /\ remoteStreams = [c \in Clients |-> {}]
  /\ wire = [c \in Clients |->
               IF c = "a" THEN <<Event("user_joined", "b", NoRoom, <<>>, NoPC)>>
               ELSE <<Event("room_joined", "b", "r1", <<"a", "b">>, NoPC)>>]
  /\ lastEv = NoEvent
  /\ nEnv = 2   \* the two events in flight
  /\ ServerIdle
  /\ PageClosed
  /\ ProviderIdle
  /\ RestIdle

\* the socket of client c hands the next event to its listeners
Deliver(c) ==
  /\ connected[c]
  /\ wire[c] # <<>>
  /\ Len(pcs[c]) < MaxPC
  /\ wire' = [wire EXCEPT ![c] = Tail(@)]
  /\ Receive(c, Head(wire[c]))
  /\ lastEv' = [type |-> Head(wire[c]).type, at |-> c, from |-> Head(wire[c]).from,
                stg |-> "none"]
  /\ UNCHANGED <<connected, hRoom, remoteStreams, nEnv>>
  /\ UNCHANGED notClient

NextMesh ==
  \/ \E c \in Clients : Deliver(c)
  \/ \E c \in Clients : CommitStep(c)
  \/ \E c \in Clients : \E t \in BagToSet(tasks[c]) : ResumeOk(c, t)
  \/ \E c \in Clients : \E i \in 1..MaxPC : onnegotiationneeded(c, i)
  \/ \E c \in Clients : \E u \in Users : ontrack(c, u)

SpecMesh == InitMesh /\ [][NextMesh]_vars

\* the connections two clients hold for each other are the two ends of one
\* offer/answer exchange, both in state stable
Established(x, y) ==
  LET i == peerConnections[x][y]
      j == peerConnections[y][x]
  IN /\ i # 0 /\ j # 0
     /\ pcs[x][i].st = "stable" /\ pcs[y][j].st = "stable"
     /\ pcs[x][i].rem = <<y, j>> /\ pcs[y][j].rem = <<x, i>>

\* nothing is in flight and no handler or effect is left to run
MeshAtRest ==
  \A c \in Clients : wire[c] = <<>> /\ tasks[c] = EmptyBag /\ ~dirty[c]

\* C2: when both clients of the room have handled every event, they hold the
\* two ends of the same completed exchange
C2_EstablishedAtRest == MeshAtRest => Established("a", "b")

\* ------------------------------------------------------------------------
\* System 3: the relay server (socketHandler.js).  Clients are the
\* environment: a connected socket may emit any event with any content.
\* ------------------------------------------------------------------------
MaxReq == 3       \* client events, after the connection, the server handles

RelayTypes == {"webrtc_offer", "webrtc_answer", "webrtc_ice_candidate"}
Payloads == {"p1", "p2"}
\* a targetUserId is any string, a user id or not
Targets == {"a", "b", "r1"}
\* a fromUserId field the sender puts into the message
BodyIds == {"c"}
\* the roomId field the client puts into the message
MsgRooms == RoomIds
JoinIds == DbRooms \cup {"rx"}

Ev(to, type, from, room, listed, payload) ==
  [to |-> to, type |-> type, from |-> from, room |-> room, listed |-> listed,
   payload |-> payload]

Req(s, type, target, payload, body) ==
  [sock |-> s, type |-> type, target |-> target, payload |-> payload, body |-> body,
   roomId |-> "none"]

\* Socket.IO: the connected sockets in a room; every socket is in the room
\* named by its own id
InRoom(rm, name) ==
  {x \in Sockets : sock[x] = "online" /\ (name = x \/ name \in rm[x])}

\* "await handleLeaveRoom(...)" and "await io.in(roomId).fetchSockets()" wait
\* for promises that are already settled (handleLeaveRoom awaits nothing and
\* the server uses the in-memory adapter), so the handler resumes in a
\* microtask.  Node runs the microtasks of a callback before the next I/O
\* callback, so no client event and no database reply is handled while a
\* handler waits at one of these two awaits.
MicrotaskPending == \E t \in handlers : t.stg \in {"left", "fetch"}

\* { offer, fromUserId: userId } with userId from a message field
ForwardedFromBody(s, r, x) == Ev(x, r.type, r.body, NoRoom, {}, r.payload)

\* io.to(targetUserId).emit(type, { offer, fromUserId: userId })
Forwarded(s, r, x) == Ev(x, r.type, UserOf(s), NoRoom, {}, r.payload)

\* handleSocketConnection
Connect(s) ==
  /\ sock[s] = "new"
  /\ ~MicrotaskPending
  /\ sock' = [sock EXCEPT ![s] = "online"]
  /\ connectedUsers' = [connectedUsers EXCEPT ![s] = [currentRoomId |-> NoRoom]]
  /\ rooms' = [rooms EXCEPT ![s] = {UserOf(s)}]
  /\ req' = Req(s, "connection", "none", "none", "none")
  /\ out' = {}
  /\ UNCHANGED <<handlers, nReq>>

\* a relay that forwards only inside the room the message names
ReceiversInMessageRoom(rm, target, roomId) == InRoom(rm, target) \cap InRoom(rm, roomId)

\* io.to(targetUserId): the sockets the relayed event is delivered to; the
\* roomId of the message is not read
Receivers(rm, target, roomId) == InRoom(rm, target)

\* socket.on('webrtc_offer' | 'webrtc_answer' | 'webrtc_ice_candidate')
Relay(s, type, target, payload, body, roomId) ==
  /\ sock[s] = "online"
  /\ ~MicrotaskPending
  /\ nReq < MaxReq
  /\ nReq' = nReq + 1
  /\ req' = [Req(s, type, target, payload, body) EXCEPT !.roomId = roomId]
  /\ out' = {Forwarded(s, Req(s, type, target, payload, body), x)
               : x \in Receivers(rooms, target, roomId)}
  /\ UNCHANGED <<sock, connectedUsers, rooms, handlers>>

\* handleLeaveRoom that emits user_left before socket.leave(roomId)
handleLeaveRoomEmitFirst(cu, rm, s, roomId) ==
  IF cu[s] = Absent \/ cu[s].currentRoomId # roomId
  THEN [cu |-> cu, rm |-> rm, out |-> {}]
  ELSE [cu |-> [cu EXCEPT ![s] = [currentRoomId |-> NoRoom]],
        rm |-> [rm EXCEPT ![s] = @ \ {roomId}],
        out |-> {Ev(x, "user_left", UserOf(s), roomId, {}, "none")
                   : x \in InRoom(rm, roomId)}]

\* handleLeaveRoom(socket, io, roomId): the new registry and adapter, and
\* the user_left events delivered
handleLeaveRoom(cu, rm, s, roomId) ==
  IF cu[s] = Absent \/ cu[s].currentRoomId # roomId
  THEN [cu |-> cu, rm |-> rm, out |-> {}]
  ELSE LET rm2 == [rm EXCEPT ![s] = @ \ {roomId}] IN
       [cu |-> [cu EXCEPT ![s] = [currentRoomId |-> NoRoom]],
        rm |-> rm2,
        out |-> {Ev(x, "user_left", UserOf(s), roomId, {}, "none")
                   : x \in InRoom(rm2, roomId)}]

\* socket.on('leave_room')
LeaveRoom(s, roomId) ==
  LET R == handleLeaveRoom(connectedUsers, rooms, s, roomId) IN
  /\ sock[s] = "online"
  /\ ~MicrotaskPending
  /\ nReq < MaxReq
  /\ nReq' = nReq + 1
  /\ req' = Req(s, "leave_room", roomId, "none", "none")
  /\ connectedUsers' = R.cu
  /\ rooms' = R.rm
  /\ out' = R.out
  /\ UNCHANGED <<sock, handlers>>

Join(s, roomId, stg, snap) == [k |-> "join", s |-> s, room |-> roomId, stg |-> stg,
                               snap |-> snap]

\* socket.on('join_room'): up to await Room.findOne
JoinRoom(s, roomId) ==
  /\ sock[s] = "online"
  /\ ~MicrotaskPending
  /\ nReq < MaxReq
  /\ Join(s, roomId, "findOne", {}) \notin handlers
  /\ nReq' = nReq + 1
  /\ req' = Req(s, "join_room", roomId, "none", "none")
  /\ handlers' = handlers \cup {Join(s, roomId, "findOne", {})}
  /\ out' = {}
  /\ UNCHANGED <<sock, connectedUsers, rooms>>

\* socket.join(roomId); connection.currentRoomId = roomId;
\* connectedUsers.set(socket.id, connection); io.in(roomId).fetchSockets()
Enter(cu, rm, t) ==
  LET rm2 == [rm EXCEPT ![t.s] = @ \cup {t.room}] IN
  [cu |-> [cu EXCEPT ![t.s] = [currentRoomId |-> t.room]],
   rm |-> rm2,
   snap |-> {x \in Sockets : sock[x] = "online" /\ t.room \in rm2[x]}]

\* Room.findOne resolved: from "if (!room)" to the next await
JoinRoomFound(t) ==
  /\ t \in handlers /\ t.k = "join" /\ t.stg = "findOne"
  /\ ~MicrotaskPending
  /\ req' = Req(t.s, "join_room:found", t.room, "none", "none")
  /\ UNCHANGED <<sock, nReq>>
  /\ IF t.room \notin DbRooms
     THEN /\ out' = {Ev(x, "error", "none", t.room, {}, "Room not found")
                       : x \in {t.s} \cap InRoom(rooms, t.s)}
          /\ handlers' = handlers \ {t}
          /\ UNCHANGED <<connectedUsers, rooms>>
     ELSE IF connectedUsers[t.s] = Absent
     THEN \* socket.join, then the assignment to undefined throws and is caught
          /\ rooms' = [rooms EXCEPT ![t.s] = @ \cup {t.room}]
          /\ out' = {Ev(x, "error", "none", t.room, {}, "Internal server error")
                       : x \in {t.s} \cap InRoom(rooms, t.s)}
          /\ handlers' = handlers \ {t}
          /\ UNCHANGED connectedUsers
     ELSE IF connectedUsers[t.s].currentRoomId # NoRoom
     THEN LET R == handleLeaveRoom(connectedUsers, rooms, t.s,
                                   connectedUsers[t.s].currentRoomId) IN
          /\ connectedUsers' = R.cu
          /\ rooms' = R.rm
          /\ out' = R.out
          /\ handlers' = (handlers \ {t}) \cup {[t EXCEPT !.stg = "left"]}
     ELSE LET E == Enter(connectedUsers, rooms, t) IN
          /\ connectedUsers' = E.cu
          /\ rooms' = E.rm
          /\ out' = {}
          /\ handlers' = (handlers \ {t}) \cup {[t EXCEPT !.stg = "fetch", !.snap = E.snap]}

\* after await handleLeaveRoom: join the room, up to await fetchSockets
JoinRoomEnter(t) ==
  LET E == Enter(connectedUsers, rooms, t) IN
  /\ t \in handlers /\ t.k = "join" /\ t.stg = "left"
  /\ req' = Req(t.s, "join_room:enter", t.room, "none", "none")
  /\ connectedUsers' = E.cu
  /\ rooms' = E.rm
  /\ out' = {}
  /\ handlers' = (handlers \ {t}) \cup {[t EXCEPT !.stg = "fetch", !.snap = E.snap]}
  /\ UNCHANGED <<sock, nReq>>

\* roomSockets.map(s => connectedUsers.get(s.id)?.user).filter(Boolean),
\* given as the sockets whose users are listed
Participants(snap) == {x \in snap : connectedUsers[x] # Absent}

\* user_joined sent with io.to(roomId), which includes the joiner
JoinRoomEmitToAll(t) ==
  /\ t \in handlers /\ t.k = "join" /\ t.stg = "fetch"
  /\ req' = Req(t.s, "join_room:emit", t.room, "none", "none")
  /\ out' = {Ev(x, "room_joined", UserOf(t.s), t.room, Participants(t.snap), "none")
               : x \in {t.s} \cap InRoom(rooms, t.s)}
            \cup {Ev(x, "user_joined", UserOf(t.s), t.room, {}, "none")
                    : x \in InRoom(rooms, t.room)}
  /\ handlers' = handlers \ {t}
  /\ UNCHANGED <<sock, connectedUsers, rooms, nReq>>

\* after await fetchSockets: room_joined to the socket, user_joined to the room
JoinRoomEmit(t) ==
  /\ t \in handlers /\ t.k = "join" /\ t.stg = "fetch"
  /\ req' = Req(t.s, "join_room:emit", t.room, "none", "none")
  /\ out' = {Ev(x, "room_joined", UserOf(t.s), t.room, Participants(t.snap), "none")
               : x \in {t.s} \cap InRoom(rooms, t.s)}
            \cup {Ev(x, "user_joined", UserOf(t.s), t.room, {}, "none")
                    : x \in InRoom(rooms, t.room) \ {t.s}}
  /\ handlers' = handlers \ {t}
  /\ UNCHANGED <<sock, connectedUsers, rooms, nReq>>

\* socket.on('disconnect'): Socket.IO has removed the socket from its rooms;
\* handleDisconnect up to await User.findByIdAndUpdate
Disconnect(s) ==
  LET rm0 == [rooms EXCEPT ![s] = {}]
      cur == connectedUsers[s].currentRoomId
      R == IF cur # NoRoom THEN handleLeaveRoom(connectedUsers, rm0, s, cur)
           ELSE [cu |-> connectedUsers, rm |-> rm0, out |-> {}]
  IN /\ sock[s] = "online"
     /\ ~MicrotaskPending
     /\ nReq < MaxReq
     /\ nReq' = nReq + 1
     /\ req' = Req(s, "disconnect", "none", "none", "none")
     /\ sock' = [sock EXCEPT ![s] = "closed"]
     /\ connectedUsers' = R.cu
     /\ rooms' = R.rm
     /\ out' = {e \in R.out : e.to # s}
     /\ handlers' = handlers \cup {[k |-> "disconnect", s |-> s, room |-> NoRoom,
                                    stg |-> "update", snap |-> {}]}

\* connectedUsers.delete(socket.id)
DisconnectDone(t) ==
  /\ t \in handlers /\ t.k = "disconnect"
  /\ ~MicrotaskPending
  /\ req' = Req(t.s, "disconnect:done", "none", "none", "none")
  /\ connectedUsers' = [connectedUsers EXCEPT ![t.s] = Absent]
  /\ handlers' = handlers \ {t}
  /\ out' = {}
  /\ UNCHANGED <<sock, rooms, nReq>>

ClientsIdle ==
  /\ InitClients
  /\ wire = <<>>

InitServer == ClientsIdle /\ ServerIdle /\ PageClosed /\ ProviderIdle /\ RestIdle

NextServer ==
  \/ \E s \in Sockets : Connect(s) /\ UNCHANGED notServer
  \/ \E s \in Sockets, ty \in RelayTypes, tg \in Targets, p \in Payloads, b \in BodyIds :
        Relay(s, ty, tg, p, b, "r1") /\ UNCHANGED notServer
  \/ \E s \in Sockets, r \in JoinIds : JoinRoom(s, r) /\ UNCHANGED notServer
  \/ \E t \in handlers : JoinRoomFound(t) /\ UNCHANGED notServer
  \/ \E t \in handlers : JoinRoomEnter(t) /\ UNCHANGED notServer
  \/ \E t \in handlers : JoinRoomEmit(t) /\ UNCHANGED notServer
  \/ \E s \in Sockets, r \in JoinIds : LeaveRoom(s, r) /\ UNCHANGED notServer
  \/ \E s \in Sockets : Disconnect(s) /\ UNCHANGED notServer
  \/ \E t \in handlers : DisconnectDone(t) /\ UNCHANGED notServer

SpecServer == InitServer /\ [][NextServer]_vars

\* The same server with messages that differ in their roomId field and not
\* in their payload.
NextRelay ==
  \/ \E s \in Sockets : Connect(s) /\ UNCHANGED notServer
  \/ \E s \in Sockets, ty \in RelayTypes, tg \in Targets, b \in BodyIds, r \in MsgRooms :
        Relay(s, ty, tg, "p1", b, r) /\ UNCHANGED notServer
  \/ \E s \in Sockets, r \in JoinIds : JoinRoom(s, r) /\ UNCHANGED notServer
  \/ \E t \in handlers : JoinRoomFound(t) /\ UNCHANGED notServer
  \/ \E t \in handlers : JoinRoomEnter(t) /\ UNCHANGED notServer
  \/ \E t \in handlers : JoinRoomEmit(t) /\ UNCHANGED notServer
  \/ \E s \in Sockets, r \in JoinIds : LeaveRoom(s, r) /\ UNCHANGED notServer
  \/ \E s \in Sockets : Disconnect(s) /\ UNCHANGED notServer
  \/ \E t \in handlers : DisconnectDone(t) /\ UNCHANGED notServer

SpecRelay == InitServer /\ [][NextRelay]_vars

\* The relay handlers change nothing but the history variables req and out,
\* so the registry, the adapter and the running handlers reach the same
\* states without them.
NextRooms ==
  \/ \E s \in Sockets : Connect(s) /\ UNCHANGED notServer
  \/ \E s \in Sockets, r \in JoinIds : JoinRoom(s, r) /\ UNCHANGED notServer
  \/ \E t \in handlers : JoinRoomFound(t) /\ UNCHANGED notServer
  \/ \E t \in handlers : JoinRoomEnter(t) /\ UNCHANGED notServer
  \/ \E t \in handlers : JoinRoomEmit(t) /\ UNCHANGED notServer
  \/ \E s \in Sockets, r \in JoinIds : LeaveRoom(s, r) /\ UNCHANGED notServer
  \/ \E s \in Sockets : Disconnect(s) /\ UNCHANGED notServer
  \/ \E t \in handlers : DisconnectDone(t) /\ UNCHANGED notServer

SpecRooms == InitServer /\ [][NextRooms]_vars

\* ------------------------------------------------------------------------
\* Properties of the server
\* ------------------------------------------------------------------------
SocketsOf(u) == {x \in Sockets : sock[x] = "online" /\ UserOf(x) = u}
Members(r) == {x \in Sockets : sock[x] = "online" /\ r \in rooms[x]}
UsersOf(S) == [u \in Users |-> Cardinality({x \in S : UserOf(x) = u})]

\* C1: a webrtc_offer, webrtc_answer or webrtc_ice_candidate with the id of
\* user T as targetUserId is delivered, with its type and payload and with
\* the sender socket's own user id as fromUserId, once to each socket of T
\* and to nobody else
C1_RelayToTargetUser ==
  (req.type \in RelayTypes /\ req.target \in Users) =>
     out = {Ev(x, req.type, UserOf(req.sock), NoRoom, {}, req.payload)
              : x \in SocketsOf(req.target)}

C1_Witness ==
  /\ req.type = "webrtc_answer" /\ req.sock = "s1" /\ req.target = "b"
  /\ req.body # UserOf(req.sock)
  /\ Cardinality(out) = 2
  /\ "r1" \in rooms["s2"] /\ "r1" \notin rooms["s3"]

\* what user_joined has to look like when room_joined e was delivered
UserJoinedToOthers(e) ==
  {d \in out : d.type = "user_joined"} =
     {Ev(x, "user_joined", UserOf(e.to), e.room, {}, "none")
        : x \in Members(e.room) \ {e.to}}

\* C10: room_joined lists the users of the sockets that are in the
\* room when it is sent, the joiner among them, and user_joined goes to the
\* other sockets of the room only
C10_ListsMembersAtEmit ==
  \A e \in out : e.type = "room_joined" =>
     /\ UsersOf(e.listed) = UsersOf(Members(e.room))
     /\ e.to \in e.listed
     /\ UserJoinedToOthers(e)

\* ------------------------------------------------------------------------
\* System 4: the room page of a logged-in user who is not in demo mode
\* ------------------------------------------------------------------------
MaxNav == 3       \* times the route changes

\* joinRoom of SocketContext
joinRoom(r) ==
  IF socketStatus = "connected"
  THEN /\ joinSent' = joinSent \cup {r}
       /\ pending' = pending \cup {r}
  ELSE UNCHANGED <<joinSent, pending>>

\* the body of the page's effect on [roomId], run for the render in which
\* the route parameter is r, roomReady is ready and connected is conn
initializeRoom(r, ready, conn) ==
  IF ready
  THEN UNCHANGED <<timers, joinSent, pending>>
  ELSE IF ~conn
  THEN \* "Working in offline demo mode": setTimeout(..., 800)
       /\ timers' = timers + 1
       /\ UNCHANGED <<joinSent, pending>>
  ELSE \* joinRoom(roomId); setTimeout(..., 1500)
       /\ joinRoom(r)
       /\ timers' = timers + 1

\* The route /room/r is opened: ProtectedRoute mounts a new SocketProvider
\* (initialState), WebRTCProvider and VideoCallPage.  The page's effect runs
\* for the first render, then the provider's effect calls io(...).
Open(r) ==
  /\ page = "closed"
  /\ nNav < MaxNav
  /\ nNav' = nNav + 1
  /\ page' = "open"
  /\ routeRoomId' = r
  /\ roomReady' = FALSE
  /\ stateConnected' = FALSE
  /\ pageRoom' = NoRoom
  /\ closure' = [currentRoom |-> NoRoom, connected |-> FALSE]
  /\ leaveSent' = {}
  /\ initializeRoom(r, FALSE, FALSE)
  /\ socketStatus' = "connecting"
  /\ UNCHANGED notPage

\* newSocket.on('connect')
SocketConnect ==
  /\ page = "open"
  /\ socketStatus = "connecting"
  /\ socketStatus' = "connected"
  /\ stateConnected' = TRUE
  /\ UNCHANGED <<page, routeRoomId, roomReady, timers, pageRoom, closure, pending,
                 joinSent, leaveSent, nNav>>
  /\ UNCHANGED notPage

\* newSocket.on('disconnect'); the socket reconnects by itself
SocketDisconnect ==
  /\ page = "open"
  /\ socketStatus = "connected"
  /\ socketStatus' = "connecting"
  /\ stateConnected' = FALSE
  /\ pending' = {}
  /\ UNCHANGED <<page, routeRoomId, roomReady, timers, pageRoom, closure, joinSent,
                 leaveSent, nNav>>
  /\ UNCHANGED notPage

\* the callback of setTimeout in initializeRoom: setRoomReady(true)
Timeout ==
  /\ page = "open"
  /\ timers > 0
  /\ timers' = timers - 1
  /\ roomReady' = TRUE
  /\ UNCHANGED <<page, routeRoomId, socketStatus, stateConnected, pageRoom, closure,
                 pending, joinSent, leaveSent, nNav>>
  /\ UNCHANGED notPage

\* newSocket.on('room_joined'): SET_ROOM
RoomJoined(r) ==
  /\ page = "open"
  /\ socketStatus = "connected"
  /\ r \in pending
  /\ pending' = pending \ {r}
  /\ pageRoom' = r
  /\ UNCHANGED <<page, routeRoomId, roomReady, timers, socketStatus, stateConnected,
                 closure, joinSent, leaveSent, nNav>>
  /\ UNCHANGED notPage

\* newSocket.on('error'): SET_ERROR
JoinError(r) ==
  /\ page = "open"
  /\ socketStatus = "connected"
  /\ r \in pending
  /\ pending' = pending \ {r}
  /\ UNCHANGED <<page, routeRoomId, roomReady, timers, socketStatus, stateConnected,
                 pageRoom, closure, joinSent, leaveSent, nNav>>
  /\ UNCHANGED notPage


\* the room ids leaveRoom of SocketContext emits leave_room for when it is
\* called for each room of rs in turn
Left(rs) == IF socketStatus = "connected" THEN rs \ {NoRoom} ELSE {}

\* the cleanup of the page's effect, with the values its closure captured
CleanupRooms == IF closure.connected THEN {closure.currentRoom} ELSE {}

\* The route parameter changes while the page stays mounted: the cleanup of
\* the previous run of the effect, then the effect for the new render.
Navigate(r) ==
  /\ page = "open"
  /\ r # routeRoomId
  /\ nNav < MaxNav
  /\ nNav' = nNav + 1
  /\ routeRoomId' = r
  /\ leaveSent' = leaveSent \cup Left(CleanupRooms)
  /\ pageRoom' = IF Left(CleanupRooms) # {} THEN NoRoom ELSE pageRoom
  /\ closure' = [currentRoom |-> pageRoom, connected |-> stateConnected]
  /\ initializeRoom(r, roomReady, stateConnected)
  /\ UNCHANGED <<page, roomReady, socketStatus, stateConnected>>
  /\ UNCHANGED notPage

\* handleLeaveRoom of the page: leaveRoom(currentRoom.roomId) and
\* navigate('/dashboard'), which unmounts the page (cleanup of its effect)
\* and the provider (newSocket.disconnect())
LeavePage ==
  /\ page = "open"
  /\ roomReady
  /\ page' = "closed"
  /\ leaveSent' = leaveSent \cup Left({pageRoom}) \cup Left(CleanupRooms)
  /\ routeRoomId' = NoRoom
  /\ roomReady' = FALSE
  /\ timers' = 0
  /\ socketStatus' = "none"
  /\ stateConnected' = FALSE
  /\ pageRoom' = NoRoom
  /\ closure' = [currentRoom |-> NoRoom, connected |-> FALSE]
  /\ pending' = {}
  /\ joinSent' = {}
  /\ UNCHANGED nNav
  /\ UNCHANGED notPage

InitPage == ClientsIdle /\ ServerIdle /\ PageClosed /\ ProviderIdle /\ RestIdle

NextPage ==
  \/ \E r \in RoomIds : Open(r)
  \/ SocketConnect
  \/ SocketDisconnect
  \/ Timeout
  \/ \E r \in RoomIds : RoomJoined(r)
  \/ \E r \in RoomIds : JoinError(r)
  \/ \E r \in RoomIds : Navigate(r)
  \/ LeavePage

SpecPage == InitPage /\ [][NextPage]_vars

\* C4: when the page of a logged-in user has finished initialising and its
\* socket is connected, join_room has been emitted for the room of the route
\* (the page calls joinRoom only while roomReady is false, so a join_room
\* that is missing in such a state is never emitted)
C4_JoinSentWhenReady ==
  (page = "open" /\ roomReady /\ socketStatus = "connected") =>
     routeRoomId \in joinSent


C10_Witness ==
  \E e \in out :
     /\ e.type = "room_joined" /\ e.to = "s2"
     /\ e.listed = {"s1", "s2"}
     /\ Cardinality(out) = 2
     /\ sock["s3"] = "online" /\ e.room \notin rooms["s3"]

\* the step handles leave_room or disconnect of socket s, whose registry
\* entry names room r before the step
LeavesCurrentRoom(s, r) ==
  /\ nReq' # nReq
  /\ req'.sock = s
  /\ \/ req'.type = "leave_room" /\ req'.target = r
     \/ req'.type = "disconnect"
  /\ connectedUsers[s] # Absent
  /\ connectedUsers[s].currentRoomId = r

\* user_left with the leaver's user id, once to each socket that is in room
\* r after the step, and nothing else
UserLeftToRoom(s, r) ==
  /\ out' = {Ev(x, "user_left", UserOf(s), r, {}, "none")
               : x \in {y \in Sockets : sock'[y] = "online" /\ r \in rooms'[y]}}
  /\ \A e \in out' : e.to # s
  /\ r \notin rooms'[s]
  /\ connectedUsers'[s] = [currentRoomId |-> NoRoom]

\* the disconnect handler of socket s has run to its end
DisconnectHandled(s) ==
  /\ sock[s] = "closed"
  /\ ~\E t \in handlers : t.k = "disconnect" /\ t.s = s

MaxAuth == 4      \* mounts and changes of user, token and demo mode
MaxCall == 1      \* calls of the provider's emit functions

UserObjects == {"u1", "u2"}     \* setUser installs a new object each time
Tokens == {"t1"}

\* the event each function of the context value emits
EmitFunctions ==
  {"joinRoom", "leaveRoom", "sendMessage", "sendAudioData", "sendOffer",
   "sendAnswer", "sendIceCandidate", "broadcastPreferences"}

EventOf(fn) ==
  CASE fn = "joinRoom" -> "join_room"
    [] fn = "leaveRoom" -> "leave_room"
    [] fn = "sendMessage" -> "send_message"
    [] fn = "sendAudioData" -> "audio_data"
    [] fn = "sendOffer" -> "webrtc_offer"
    [] fn = "sendAnswer" -> "webrtc_answer"
    [] fn = "sendIceCandidate" -> "webrtc_ice_candidate"
    [] fn = "broadcastPreferences" -> "user_preferences_updated"

\* io(SOCKET_URL, { autoConnect: true, ... })
NewSocket == [st |-> "connecting", sendBuffer |-> <<>>]

\* socket.io-client Socket.emit: written to the transport when the socket is
\* connected, kept in sendBuffer otherwise
SocketEmit(S, i, type) ==
  IF S.socks[i].st = "connected"
  THEN [S EXCEPT !.sent = Append(@, [type |-> type, sock |-> i])]
  ELSE [S EXCEPT !.socks[i].sendBuffer = Append(@, type)]

\* socket.io-client Socket.disconnect: the 'disconnect' listener runs when
\* the socket was connected
SocketDisconnectCall(S, i) ==
  [S EXCEPT !.socks[i].st = "disconnected",
            !.connected = IF S.socks[i].st = "connected" THEN FALSE ELSE @]

\* the provider as one record
Provider ==
  [ref |-> socketRef, socks |-> ioSockets, cleanup |-> cleanupOf,
   connected |-> provConnected, room |-> provRoom, sent |-> sent,
   effect |-> lastEffect]

SetProvider(S) ==
  /\ socketRef' = S.ref
  /\ ioSockets' = S.socks
  /\ cleanupOf' = S.cleanup
  /\ provConnected' = S.connected
  /\ provRoom' = S.room
  /\ sent' = S.sent
  /\ lastEffect' = S.effect

\* socketRef.current?.connected
RefConnected(S) == S.ref # 0 /\ S.socks[S.ref].st = "connected"

\* the cleanup the last run of the effect returned, if it returned one:
\* newSocket.disconnect(); dispatch SET_CONNECTED false
RunCleanup(S) ==
  IF S.cleanup = 0 THEN S
  ELSE [SocketDisconnectCall(S, S.cleanup) EXCEPT !.connected = FALSE, !.cleanup = 0]

\* the else branch of the effect: "Demo mode or no user - ensure clean state"
NoSocketBranch(S, demo) ==
  LET S1 == IF S.ref # 0 THEN SocketDisconnectCall(S, S.ref) ELSE S
  IN [S1 EXCEPT !.ref = 0,
                !.connected = FALSE,
                !.room = IF demo THEN @ ELSE NoRoom,
                !.cleanup = 0,
                !.effect = [branch |-> "none held", connected |-> RefConnected(S)]]

\* the body of the effect on [user, token]
SocketEffect(S, user, token, demo) ==
  IF user # NoAuth /\ token # NoAuth /\ ~demo
  THEN IF RefConnected(S)
       THEN [S EXCEPT !.cleanup = 0,
                      !.effect = [branch |-> "reused", connected |-> TRUE]]
       ELSE LET S1 == IF S.ref # 0
                      THEN [SocketDisconnectCall(S, S.ref) EXCEPT !.ref = 0]
                      ELSE S
                n == Len(S1.socks) + 1
            IN [S1 EXCEPT !.socks = Append(@, NewSocket),
                          !.ref = n,
                          !.cleanup = n,
                          !.effect = [branch |-> "created", connected |-> FALSE]]
  ELSE NoSocketBranch(S, demo)

\* the provider unmounts: the cleanup runs, the instance and its ref are gone
Unmounted(S) == [RunCleanup(S) EXCEPT !.ref = 0, !.effect = NoEffect]

\* a route under ProtectedRoute renders a new SocketProvider: initialState,
\* socketRef = null, the effect runs
Mount ==
  /\ ~provMounted
  /\ authUser # NoAuth
  /\ nAuth < MaxAuth
  /\ nAuth' = nAuth + 1
  /\ provMounted' = TRUE
  /\ SetProvider(SocketEffect([Provider EXCEPT !.ref = 0, !.cleanup = 0,
                                               !.connected = FALSE, !.room = NoRoom],
                              authUser, authToken, demoMode))
  /\ UNCHANGED lastCall
  /\ UNCHANGED <<authUser, authToken, demoMode, nCall>>
  /\ UNCHANGED notProvider

\* the user leaves the route
Unmount ==
  /\ provMounted
  /\ provMounted' = FALSE
  /\ SetProvider(Unmounted(Provider))
  /\ UNCHANGED lastCall
  /\ UNCHANGED <<authUser, authToken, demoMode, nCall, nAuth>>
  /\ UNCHANGED notProvider

\* AuthContext sets user and token (checkAuth, login, logout,
\* updatePreferences).  Without a user ProtectedRoute unmounts the provider;
\* otherwise the cleanup of the last run and then the effect run.
SetAuth(u, t) ==
  /\ <<u, t>> # <<authUser, authToken>>
  /\ nAuth < MaxAuth
  /\ nAuth' = nAuth + 1
  /\ authUser' = u
  /\ authToken' = t
  /\ UNCHANGED lastCall
  /\ IF ~provMounted
     THEN UNCHANGED <<provMounted, socketRef, ioSockets, cleanupOf, provConnected,
                      provRoom, sent, lastEffect>>
     ELSE IF u = NoAuth
     THEN /\ provMounted' = FALSE
          /\ SetProvider(Unmounted(Provider))
     ELSE /\ provMounted' = TRUE
          /\ SetProvider(SocketEffect(RunCleanup(Provider), u, t, demoMode))
  /\ UNCHANGED <<demoMode, nCall>>
  /\ UNCHANGED notProvider

\* the demo button of this tab's Dashboard: setItem('demoMode') and
\* navigate('/room/demo123'), which unmounts the Dashboard's provider
EnterDemo ==
  /\ provMounted /\ ~demoMode
  /\ nAuth < MaxAuth
  /\ nAuth' = nAuth + 1
  /\ demoMode' = TRUE
  /\ provMounted' = FALSE
  /\ SetProvider(Unmounted(Provider))
  /\ UNCHANGED lastCall
  /\ UNCHANGED <<authUser, authToken, nCall>>
  /\ UNCHANGED notProvider

\* another tab of the application writes the shared localStorage: its demo
\* button sets or removes 'demoMode', its logout removes it
StorageChange(demo) ==
  /\ demo # demoMode
  /\ nAuth < MaxAuth
  /\ nAuth' = nAuth + 1
  /\ demoMode' = demo
  /\ UNCHANGED lastCall
  /\ UNCHANGED <<authUser, authToken, provMounted, socketRef, ioSockets, cleanupOf,
                 provConnected, provRoom, sent, lastEffect, nCall>>
  /\ UNCHANGED notProvider

\* the demo button of this tab's Dashboard in demo mode: the items are
\* removed and window.location.reload() starts the application again
ExitDemo ==
  /\ provMounted /\ demoMode
  /\ nAuth < MaxAuth
  /\ nAuth' = nAuth + 1
  /\ demoMode' = FALSE
  /\ provMounted' = FALSE
  /\ authUser' = NoAuth
  /\ authToken' = NoAuth
  /\ SetProvider(Unmounted(Provider))
  /\ UNCHANGED <<lastCall, nCall>>
  /\ UNCHANGED notProvider

\* the transport of socket i connects: sendBuffer is flushed, then
\* newSocket.on('connect') dispatches SET_CONNECTED true
TransportConnect(i) ==
  /\ i \in 1..Len(ioSockets)
  /\ ioSockets[i].st = "connecting"
  /\ ioSockets' = [ioSockets EXCEPT ![i] = [st |-> "connected", sendBuffer |-> <<>>]]
  /\ sent' = sent \o [k \in 1..Len(ioSockets[i].sendBuffer) |->
                        [type |-> ioSockets[i].sendBuffer[k], sock |-> i]]
  /\ provConnected' = TRUE
  /\ UNCHANGED lastCall
  /\ UNCHANGED <<authUser, authToken, demoMode, provMounted, socketRef, cleanupOf,
                 provRoom, lastEffect, nCall, nAuth>>
  /\ UNCHANGED notProvider

\* the transport of socket i is lost (the manager reconnects it):
\* newSocket.on('disconnect') dispatches SET_CONNECTED false
TransportDrop(i) ==
  /\ i \in 1..Len(ioSockets)
  /\ ioSockets[i].st = "connected"
  /\ ioSockets' = [ioSockets EXCEPT ![i].st = "connecting"]
  /\ provConnected' = FALSE
  /\ UNCHANGED lastCall
  /\ UNCHANGED <<authUser, authToken, demoMode, provMounted, socketRef, cleanupOf,
                 provRoom, sent, lastEffect, nCall, nAuth>>
  /\ UNCHANGED notProvider

\* newSocket.on('room_joined'): dispatch SET_ROOM
onRoomJoined(i, r) ==
  /\ i \in 1..Len(ioSockets)
  /\ ioSockets[i].st = "connected"
  /\ provRoom # r
  /\ provRoom' = r
  /\ UNCHANGED lastCall
  /\ UNCHANGED <<authUser, authToken, demoMode, provMounted, socketRef, ioSockets,
                 cleanupOf, provConnected, sent, lastEffect, nCall, nAuth>>
  /\ UNCHANGED notProvider

\* an emit function without "if (socketRef.current?.connected)"
EmitUnguarded(S, fn) ==
  IF S.ref # 0
  THEN LET S1 == SocketEmit(S, S.ref, EventOf(fn))
       IN IF fn = "leaveRoom" THEN [S1 EXCEPT !.room = NoRoom] ELSE S1
  ELSE S

\* joinRoom, leaveRoom, sendMessage, sendAudioData, sendOffer, sendAnswer,
\* sendIceCandidate, broadcastPreferences: emit if socketRef.current?.connected;
\* leaveRoom also dispatches CLEAR_ROOM_STATE then
EmitIfConnected(S, fn) ==
  IF RefConnected(S)
  THEN LET S1 == SocketEmit(S, S.ref, EventOf(fn))
       IN IF fn = "leaveRoom" THEN [S1 EXCEPT !.room = NoRoom] ELSE S1
  ELSE S

\* a component under the provider calls one of the functions
Call(fn) ==
  /\ provMounted
  /\ nCall < MaxCall
  /\ nCall' = nCall + 1
  /\ lastCall' = [fn |-> fn, connected |-> RefConnected(Provider)]
  /\ SetProvider(EmitIfConnected(Provider, fn))
  /\ UNCHANGED <<authUser, authToken, demoMode, provMounted, nAuth>>
  /\ UNCHANGED notProvider

InitProvider == ClientsIdle /\ ServerIdle /\ PageClosed /\ ProviderIdle /\ RestIdle

NextProvider ==
  \/ Mount
  \/ Unmount
  \/ \E u \in UserObjects \cup {NoAuth}, t \in Tokens \cup {NoAuth} : SetAuth(u, t)
  \/ EnterDemo
  \/ ExitDemo
  \/ \E demo \in BOOLEAN : StorageChange(demo)
  \/ \E i \in 1..MaxAuth : TransportConnect(i)
  \/ \E i \in 1..MaxAuth : TransportDrop(i)
  \/ \E i \in 1..MaxAuth, r \in RoomIds : onRoomJoined(i, r)
  \/ \E fn \in EmitFunctions : Call(fn)

SpecProvider == InitProvider /\ [][NextProvider]_vars

\* C12: a call of an emit function while the socket is not connected writes
\* nothing to the transport and queues nothing, and a packet is written only
\* by a call made while the socket is connected, so a dropped message is not
\* sent after the socket reconnects
C12_NoEmitUnlessConnected ==
  /\ [][/\ (nCall' # nCall /\ ~lastCall'.connected) =>
              (sent' = sent /\ ioSockets' = ioSockets)
        /\ (sent' # sent) =>
              /\ nCall' # nCall /\ lastCall'.connected
              /\ sent' = Append(sent, [type |-> EventOf(lastCall'.fn),
                                       sock |-> socketRef])]_vars
  /\ [](\A i \in 1..Len(ioSockets) : ioSockets[i].sendBuffer = <<>>)

C12_Witness ==
  /\ lastCall = [fn |-> "sendOffer", connected |-> FALSE]
  /\ nCall = 1
  /\ socketRef # 0 /\ ioSockets[socketRef].st = "connected"
  /\ sent = <<>>

\* the sockets of the provider that are not disconnected
LiveSockets == {i \in 1..Len(ioSockets) : ioSockets[i].st # "disconnected"}

\* C14: the provider holds at most one socket that is not disconnected and
\* none without a user, without a token or in demo mode; a step that creates
\* a socket leaves every earlier socket disconnected, and no step creates a
\* socket when the current one is connected
C14_SingleStableConnection ==
  /\ [](Cardinality(LiveSockets) <= 1)
  /\ []((authUser = NoAuth \/ authToken = NoAuth \/ demoMode) => socketRef = 0)
  /\ [][Len(ioSockets') > Len(ioSockets) =>
          /\ \A i \in 1..Len(ioSockets) : ioSockets'[i].st = "disconnected"
          /\ ~RefConnected(Provider)]_vars

\* ------------------------------------------------------------------------
\* System 6: POST /join/:roomId (routes/rooms.js) on one public room, with
\* the database as the environment that serves each query and update
\* ------------------------------------------------------------------------
MaxJoin == 2              \* join requests
MaxParticipants == 2      \* settings.maxParticipants of the room (schema: min 2, max 50)
SchemaMaxParticipants == 50

JoinPaths == {"r1", "rx"}   \* :roomId of a request; the collection holds r1
NoDoc == [participants |-> [u \in Users |-> 0], status |-> "none"]

\* roomSchema.virtual('activeParticipantsCount')
RECURSIVE SumOver(_, _)
SumOver(f, S) ==
  IF S = {} THEN 0
  ELSE LET u == CHOOSE x \in S : TRUE IN f[u] + SumOver(f, S \ {u})

activeParticipantsCount(doc) == SumOver(doc.participants, Users)

RestJob(id, u, r, stg, snap, push) ==
  [id |-> id, user |-> u, room |-> r, stg |-> stg, snap |-> snap, push |-> push]

Res(u, code, error, found) ==
  [user |-> u, code |-> code, error |-> error, found |-> found]

\* the handler up to await Room.findOne({ roomId }).populate(...)
JoinRequest(u, r) ==
  /\ nJoin < MaxJoin
  /\ nJoin' = nJoin + 1
  /\ restJobs' = restJobs \cup {RestJob(nJoin + 1, u, r, "findOne", NoDoc, FALSE)}
  /\ restRes' = NoRes
  /\ UNCHANGED dbRoom
  /\ UNCHANGED notRest

\* the database serves the query: the handler will see the document as it
\* is stored now
DbFindOne(j) ==
  /\ j \in restJobs /\ j.stg = "findOne"
  /\ restJobs' = (restJobs \ {j}) \cup
        {[j EXCEPT !.stg = "loaded",
                   !.snap = IF j.room = "r1" THEN dbRoom ELSE NoDoc]}
  /\ restRes' = NoRes
  /\ UNCHANGED <<dbRoom, nJoin>>
  /\ UNCHANGED notRest

\* Room.findOne resolved: the checks, then addParticipant up to this.save().
\* byId says whether p.user.toString() of a populated participant equals the
\* user's id, which depends on what the populated document's toString returns.
JoinCheck(j, byId) ==
  LET count == activeParticipantsCount(j.snap)
      existingParticipant == byId /\ j.snap.participants[j.user] > 0
  IN
  /\ j \in restJobs /\ j.stg = "loaded"
  /\ UNCHANGED <<dbRoom, nJoin>>
  /\ UNCHANGED notRest
  /\ IF j.snap = NoDoc
     THEN /\ restRes' = Res(j.user, 404, "Room not found", 0)
          /\ restJobs' = restJobs \ {j}
     ELSE IF j.snap.status = "ended"
     THEN /\ restRes' = Res(j.user, 400, "Room ended", count)
          /\ restJobs' = restJobs \ {j}
     ELSE IF count >= MaxParticipants
     THEN /\ restRes' = Res(j.user, 400, "Room full", count)
          /\ restJobs' = restJobs \ {j}
     ELSE /\ restRes' = NoRes
          /\ restJobs' = (restJobs \ {j}) \cup
                {[j EXCEPT !.stg = "save", !.push = ~existingParticipant]}

\* the database applies the update of this.save(): the pushed entry is
\* appended to the stored array
DbSave(j) ==
  /\ j \in restJobs /\ j.stg = "save"
  /\ dbRoom' = IF j.push
               THEN [dbRoom EXCEPT !.participants[j.user] = @ + 1]
               ELSE dbRoom
  /\ restJobs' = (restJobs \ {j}) \cup {[j EXCEPT !.stg = "saved"]}
  /\ restRes' = NoRes
  /\ UNCHANGED nJoin
  /\ UNCHANGED notRest

\* addParticipant resolved: status waiting -> active and its save, populate,
\* res.json
JoinDone(j) ==
  /\ j \in restJobs /\ j.stg = "saved"
  /\ dbRoom' = IF j.snap.status = "waiting"
               THEN [dbRoom EXCEPT !.status = "active"]
               ELSE dbRoom
  /\ restJobs' = restJobs \ {j}
  /\ restRes' = Res(j.user, 200, "none", activeParticipantsCount(j.snap))
  /\ UNCHANGED nJoin
  /\ UNCHANGED notRest

InitRest == ClientsIdle /\ ServerIdle /\ PageClosed /\ ProviderIdle /\ RestIdle

NextRest ==
  \/ \E u \in Users, r \in JoinPaths : JoinRequest(u, r)
  \/ \E j \in restJobs : DbFindOne(j)
  \/ \E j \in restJobs, byId \in BOOLEAN : JoinCheck(j, byId)
  \/ \E j \in restJobs : DbSave(j)
  \/ \E j \in restJobs : JoinDone(j)

SpecRest == InitRest /\ [][NextRest]_vars

\* C13: the stored room never has more active participants than its
\* settings.maxParticipants, which is at most 50, and a join request that
\* found the room at capacity was answered with 400 'Room full'
C13_NeverOverCapacity ==
  /\ MaxParticipants <= SchemaMaxParticipants
  /\ activeParticipantsCount(dbRoom) <= MaxParticipants
  /\ (restRes.code # 0 /\ restRes.code # 404 /\ restRes.found >= MaxParticipants) =>
        (restRes.code = 400 /\ restRes.error = "Room full")

\* the adapter states an online socket can be in: the room of its user and
\* at most one room of the database
AdapterStates ==
  {[s \in Sockets |-> {UserOf(s)} \cup f[s]] :
     f \in [Sockets -> {{}} \cup {{r} : r \in DbRooms}]}

\* what the relay delivers for request r when the sockets are in the rooms
\* rm and the message names room roomId
Delivered(r, rm, roomId) ==
  {Forwarded(r.sock, r, x) : x \in Receivers(rm, r.target, roomId)}

\* the delivery of the last request is the same for every room the message
\* can name and for all rooms the sockets can be in
SameInAllRooms ==
  \A rm \in AdapterStates, roomId \in MsgRooms : out = Delivered(req, rm, roomId)

\* C15 as stated: whatever targetUserId is, neither the roomId of the
\* message nor the rooms the sockets are in change to whom a webrtc_offer,
\* webrtc_answer or webrtc_ice_candidate is delivered
C15_DeliveryIgnoresRooms ==
  req.type \in RelayTypes => SameInAllRooms

\* C15: for a targetUserId that is the id of a user, neither the roomId of
\* the message nor the rooms the sockets are in change to whom the message
\* is delivered; a targetUserId that is the id of a room is delivered to the
\* sockets that are in that room
C15_UserTargetIgnoresRooms ==
  req.type \in RelayTypes =>
     /\ req.target \in Users => SameInAllRooms
     /\ req.target \in DbRooms =>
           out = {Forwarded(req.sock, req, x) : x \in Members(req.target)}

C15_Witness ==
  /\ req.type = "webrtc_offer" /\ req.sock = "s1" /\ req.target = "b"
  /\ req.roomId = "r2"
  /\ connectedUsers["s1"].currentRoomId = "r1"
  /\ "r1" \notin rooms["s2"] /\ sock["s3"] = "online"
  /\ {e.to : e \in out} = {"s2", "s3"}

====
